---- MODULE Spec2Model ----
(***************************************************************************)
(* Model of src/main.rs: a transparent overlay window (create_window), its *)
(* GPU context (RenderContext::new), the frame routine (draw) and the      *)
(* closure that run() hands to the event loop.                             *)
(*                                                                         *)
(* The windowing system and the event loop are the environment of the      *)
(* program.  The environment resizes the window, asks for redraws and for  *)
(* close, and posts other events; each goes to the FIFO `pending` and the  *)
(* loop hands the events to the closure one at a time, in arrival order.   *)
(* ControlFlow::Exit is sticky: once the closure has set it, the loop      *)
(* still hands the closure the events of the iteration it is in, with a    *)
(* control flow whose changes are dropped, and then stops.                 *)
(***************************************************************************)
EXTENDS Integers, Sequences, FiniteSets, TLC

VARIABLES
    primary,           \* event_loop.primary_monitor(): NoMonitor or its width, a u32
    pc,                \* position of the program
    diagnostic,        \* message of the error or panic that ended the program
    pos,               \* create_window: `pos`, once computed
    window,            \* the window built by create_window
    window_size,       \* the window's current physical size (window.inner_size())
    pending,           \* events posted by the windowing system, not yet handled
    control_flow,      \* the event loop's control flow
    last_event,        \* the event the closure handled last
    size_read,         \* RenderContext::new: `window_size`
    surface,           \* the surface and the configuration last applied to it
    adapter_requests,  \* the RequestAdapterOptions of every request_adapter call
    adapter,           \* RenderContext::new: `adapter`
    device,            \* ctx.device and ctx.queue
    swapchain_format,  \* RenderContext::new: `swapchain_format`
    render_pipeline,   \* ctx.render_pipeline
    surface_config,    \* ctx.surface_config
    frame,             \* what the last draw call that returned did
    draw_calls,        \* number of draw calls made
    acquired,          \* number of textures acquired from the surface
    presents           \* number of present operations

vars == <<primary, pc, diagnostic, pos, window, window_size,
          pending, control_flow, last_event, size_read, surface,
          adapter_requests, adapter, device, swapchain_format,
          render_pipeline, surface_config, frame, draw_calls, acquired,
          presents>>

windowVars == <<window, window_size, pending>>
loopVars == <<control_flow, last_event>>
ctxVars == <<size_read, surface, adapter_requests, adapter, device,
             swapchain_format, render_pipeline, surface_config>>
drawVars == <<frame, draw_calls, acquired, presents>>

----------------------------------------------------------------------------
(* Bounds of the model *)

\* sampled u32 values lie within Spread of 0, of 1024 and of 65535 in the low half
Spread == 3
\* window sizes other than the initial one have width 0..MaxDim
MaxDim == 1
\* events posted and not yet handled
MaxPending == 2
\* draw calls
MaxFrames == 2

----------------------------------------------------------------------------
(* u32 and i32 arithmetic.  A u32 is kept as two 16-bit halves,            *)
(* value = hi * 65536 + lo, so that all of 0 .. 2^32 - 1 is covered.       *)

Half == 65536
I32HiLimit == 32768

U32(h, l) == [hi |-> h, lo |-> l]

U32Less(a, b) == a.hi < b.hi \/ (a.hi = b.hi /\ a.lo < b.lo)

\* a - b modulo 2^32
U32WrappingSub(a, b) ==
    LET borrow == IF a.lo < b.lo THEN 1 ELSE 0
    IN  U32((a.hi - b.hi - borrow) % Half, (a.lo - b.lo) % Half)

\* a / 2
U32Div2(a) == U32(a.hi \div 2, ((a.hi % 2) * Half + a.lo) \div 2)

\* i32::try_from(a): Ok when a <= i32::MAX
TryIntoI32(a) ==
    IF a.hi >= I32HiLimit
    THEN [ok |-> FALSE, value |-> 0]
    ELSE [ok |-> TRUE, value |-> a.hi * Half + a.lo]

----------------------------------------------------------------------------
(* create_window *)

NoMonitor == [none |-> "NoMonitor"]
NoPos == [none |-> "NoPos"]
NoWindow == [none |-> "NoWindow"]
NoSize == [none |-> "NoSize"]

WindowWidth == 1024
WindowHeight == 128
WindowY == 8

PhysicalSize(w, h) == [width |-> w, height |-> h]
InitialSize == PhysicalSize(WindowWidth, WindowHeight)

ErrNoPrimary == "primary monitor is not found"
ErrSubOverflow == "attempt to subtract with overflow"
ErrTryFromInt == "out of range integral type conversion attempted"
ErrOs == "os error"

\* a slip: the difference is converted before it is halved
PositionXConvertFirst(width, checks) ==
    IF checks /\ U32Less(width, U32(0, WindowWidth))
    THEN [ok |-> FALSE, value |-> 0, error |-> ErrSubOverflow]
    ELSE LET r == TryIntoI32(U32WrappingSub(width, U32(0, WindowWidth)))
         IN  [ok |-> r.ok, value |-> r.value \div 2,
              error |-> IF r.ok THEN "" ELSE ErrTryFromInt]

\* (primary_size.width - size.width) / 2).try_into(): the subtraction traps
\* in a build with overflow checks and wraps in a build without
PositionX(width, checks) ==
    IF checks /\ U32Less(width, U32(0, WindowWidth))
    THEN [ok |-> FALSE, value |-> 0, error |-> ErrSubOverflow]
    ELSE LET r == TryIntoI32(U32Div2(U32WrappingSub(width, U32(0, WindowWidth))))
         IN  [ok |-> r.ok, value |-> r.value,
              error |-> IF r.ok THEN "" ELSE ErrTryFromInt]

\* a slip: without a primary monitor the window goes to the left edge
WindowPositionWithoutMonitor ==
    /\ pc = "create_window"
    /\ IF primary = NoMonitor
       THEN /\ pc' = "build_window"
            /\ pos' = [x |-> 0, y |-> WindowY]
            /\ diagnostic' = diagnostic
       ELSE \E checks \in BOOLEAN :
              LET x == PositionX(primary, checks)
              IN  IF x.ok
                  THEN /\ pc' = "build_window"
                       /\ pos' = [x |-> x.value, y |-> WindowY]
                       /\ diagnostic' = diagnostic
                  ELSE /\ pc' = "aborted"
                       /\ diagnostic' = x.error
                       /\ pos' = pos
    /\ UNCHANGED <<primary, windowVars, loopVars, ctxVars, drawVars>>

\* lines 26-34: the primary monitor and the position; `checks` is whether the
\* build traps on integer overflow (a debug profile) or wraps (a release one)
WindowPosition ==
    /\ pc = "create_window"
    /\ IF primary = NoMonitor
       THEN /\ pc' = "aborted"
            /\ diagnostic' = ErrNoPrimary
            /\ pos' = pos
       ELSE \E checks \in BOOLEAN :
              LET x == PositionX(primary, checks)
              IN  IF x.ok
                  THEN /\ pc' = "build_window"
                       /\ pos' = [x |-> x.value, y |-> WindowY]
                       /\ diagnostic' = diagnostic
                  ELSE /\ pc' = "aborted"
                       /\ diagnostic' = x.error
                       /\ pos' = pos
    /\ UNCHANGED <<primary, windowVars, loopVars, ctxVars, drawVars>>

\* lines 36-42: the window is built, or the build fails
BuildWindow ==
    /\ pc = "build_window"
    /\ \/ /\ pc' = "new_context"
          /\ window' = [position |-> pos, inner_size |-> InitialSize,
                        transparent |-> TRUE]
          /\ window_size' = InitialSize
          /\ diagnostic' = diagnostic
       \/ /\ pc' = "aborted"
          /\ diagnostic' = ErrOs
          /\ UNCHANGED <<window, window_size>>
    /\ UNCHANGED <<primary, pos, pending, loopVars, ctxVars, drawVars>>

----------------------------------------------------------------------------
(* RenderContext::new *)

NoSurface == [none |-> "NoSurface"]
NoConfig == [none |-> "NoConfig"]
NoAdapter == "NoAdapter"
NoDevice == "NoDevice"
NoFormat == "NoFormat"
NoPipeline == [none |-> "NoPipeline"]
NoFrame == [none |-> "NoFrame"]

ErrAdapter == "Failed to find an appropriate adapter"
ErrDevice == "Failed to create device"
ErrFormat == "called Option::unwrap() on a None value"
ErrAcquire == "Failed to acquire next swap chain texture"

\* the texture formats a surface may prefer
Formats == {"Bgra8UnormSrgb", "Rgba8UnormSrgb"}

\* a slip: a fallback adapter is accepted
RequestAdapterOptionsFallback ==
    [power_preference |-> "default", compatible_surface |-> "surface",
     force_fallback_adapter |-> TRUE]

\* lines 97-101
RequestAdapterOptions ==
    [power_preference |-> "default", compatible_surface |-> "surface",
     force_fallback_adapter |-> FALSE]

\* a slip: the pipeline's target format is written out, not the negotiated one
PipelineTargetsFixed(format) == <<"Bgra8UnormSrgb">>

\* line 141: targets: &[swapchain_format.into()]
PipelineTargets(format) == <<format>>

\* lines 130-147
RenderPipelineDescriptor(format) ==
    [vertex |-> "vs_main", fragment |-> "fs_main", buffers |-> <<>>,
     targets |-> PipelineTargets(format)]

\* lines 149-155
SurfaceConfiguration(format, size) ==
    [usage |-> "RENDER_ATTACHMENT", format |-> format, width |-> size.width,
     height |-> size.height, present_mode |-> "Mailbox"]

\* surface.configure(&device, &config)
Configure(s, dev, config) == [s EXCEPT !.device = dev, !.config = config]

\* lines 86-94: the size is read, the surface is created on the window
NewSurface ==
    /\ pc = "new_context"
    /\ size_read' = window_size
    /\ surface' = [window |-> "window", device |-> NoDevice, config |-> NoConfig]
    /\ pc' = "request_adapter"
    /\ UNCHANGED <<primary, diagnostic, pos, windowVars, loopVars,
                   adapter_requests, adapter, device, swapchain_format,
                   render_pipeline, surface_config, drawVars>>

\* lines 96-103: one request; no adapter is a panic
RequestAdapter ==
    /\ pc = "request_adapter"
    /\ adapter_requests' = Append(adapter_requests, RequestAdapterOptions)
    /\ \/ /\ adapter' = "adapter"
          /\ pc' = "request_device"
          /\ diagnostic' = diagnostic
       \/ /\ adapter' = adapter
          /\ pc' = "aborted"
          /\ diagnostic' = ErrAdapter
    /\ UNCHANGED <<primary, pos, windowVars, loopVars, size_read,
                   surface, device, swapchain_format, render_pipeline,
                   surface_config, drawVars>>

\* lines 105-115: the device and its queue; a failure is a panic
RequestDevice ==
    /\ pc = "request_device"
    /\ \/ /\ device' = "device"
          /\ pc' = "create_pipeline"
          /\ diagnostic' = diagnostic
       \/ /\ device' = device
          /\ pc' = "aborted"
          /\ diagnostic' = ErrDevice
    /\ UNCHANGED <<primary, pos, windowVars, loopVars, size_read,
                   surface, adapter_requests, adapter, swapchain_format,
                   render_pipeline, surface_config, drawVars>>

\* lines 117-147: shader, layout, the preferred format, the pipeline
CreatePipeline ==
    /\ pc = "create_pipeline"
    /\ \/ \E format \in Formats :
            /\ swapchain_format' = format
            /\ render_pipeline' = RenderPipelineDescriptor(format)
            /\ pc' = "configure"
            /\ diagnostic' = diagnostic
       \/ /\ UNCHANGED <<swapchain_format, render_pipeline>>
          /\ pc' = "aborted"
          /\ diagnostic' = ErrFormat
    /\ UNCHANGED <<primary, pos, windowVars, loopVars, size_read,
                   surface, adapter_requests, adapter, device, surface_config,
                   drawVars>>

\* a slip: the configuration is stored and the surface is left unconfigured
ConfigureSurfaceLate ==
    /\ pc = "configure"
    /\ surface_config' = SurfaceConfiguration(swapchain_format, size_read)
    /\ pc' = "event_loop"
    /\ UNCHANGED <<primary, diagnostic, pos, windowVars, loopVars,
                   size_read, surface, adapter_requests, adapter, device,
                   swapchain_format, render_pipeline, drawVars>>

\* lines 149-166: the first configuration; the context is complete
ConfigureSurface ==
    /\ pc = "configure"
    /\ surface_config' = SurfaceConfiguration(swapchain_format, size_read)
    /\ surface' = Configure(surface, device, surface_config')
    /\ pc' = "event_loop"
    /\ UNCHANGED <<primary, diagnostic, pos, windowVars, loopVars,
                   size_read, adapter_requests, adapter, device, swapchain_format,
                   render_pipeline, drawVars>>

----------------------------------------------------------------------------
(* The windowing system *)

NoEvent == [type |-> "NoEvent", size |-> NoSize]
Resized(size) == [type |-> "Resized", size |-> size]
RedrawRequested == [type |-> "RedrawRequested", size |-> NoSize]
CloseRequested == [type |-> "CloseRequested", size |-> NoSize]
OtherEvent == [type |-> "Other", size |-> NoSize]
LoopDestroyed == [type |-> "LoopDestroyed", size |-> NoSize]

\* the sizes a window takes: the one asked for, 0x0 (minimised), and others
Sizes == {InitialSize, PhysicalSize(0, 0)}
            \cup {PhysicalSize(k, k + 1) : k \in 1..MaxDim}

WindowAlive ==
    pc \in {"new_context", "request_adapter", "request_device",
            "create_pipeline", "configure", "event_loop"}

RedrawsPending == Cardinality({i \in DOMAIN pending : pending[i] = RedrawRequested})

Post(event) ==
    /\ WindowAlive
    /\ Len(pending) < MaxPending
    /\ pending' = Append(pending, event)

\* the window takes a new size; the event that reports it is posted
OsResize ==
    /\ \E size \in Sizes :
          /\ Post(Resized(size))
          /\ window_size' = size
    /\ UNCHANGED <<primary, pc, diagnostic, pos, window, loopVars,
                   ctxVars, drawVars>>

OsRedraw ==
    /\ draw_calls + RedrawsPending < MaxFrames
    /\ Post(RedrawRequested)
    /\ UNCHANGED <<primary, pc, diagnostic, pos, window,
                   window_size, loopVars, ctxVars, drawVars>>

OsClose ==
    /\ Post(CloseRequested)
    /\ UNCHANGED <<primary, pc, diagnostic, pos, window,
                   window_size, loopVars, ctxVars, drawVars>>

OsOther ==
    /\ Post(OtherEvent)
    /\ UNCHANGED <<primary, pc, diagnostic, pos, window,
                   window_size, loopVars, ctxVars, drawVars>>

----------------------------------------------------------------------------
(* draw *)

\* wgpu::Color::TRANSPARENT
Transparent == [r |-> 0, g |-> 0, b |-> 0, a |-> 0]

\* the configuration last applied to the surface
AppliedConfig == IF surface = NoSurface THEN NoConfig ELSE surface.config

\* a slip: the frame is never presented
DrawOpsNoPresent(texture) ==
    << [op |-> "get_current_texture", texture |-> texture],
       [op |-> "create_view", texture |-> texture],
       [op |-> "create_command_encoder"],
       [op |-> "begin_render_pass", view |-> texture, load |-> "Clear",
        clear |-> Transparent, store |-> TRUE],
       [op |-> "set_pipeline", pipeline |-> render_pipeline],
       [op |-> "draw", vertices |-> <<0, 3>>, instances |-> <<0, 1>>],
       [op |-> "end_render_pass"],
       [op |-> "finish"],
       [op |-> "submit", command_buffers |-> 1] >>

\* a slip: the frame is presented before the commands are submitted
DrawOpsPresentFirst(texture) ==
    << [op |-> "get_current_texture", texture |-> texture],
       [op |-> "create_view", texture |-> texture],
       [op |-> "create_command_encoder"],
       [op |-> "begin_render_pass", view |-> texture, load |-> "Clear",
        clear |-> Transparent, store |-> TRUE],
       [op |-> "set_pipeline", pipeline |-> render_pipeline],
       [op |-> "draw", vertices |-> <<0, 3>>, instances |-> <<0, 1>>],
       [op |-> "end_render_pass"],
       [op |-> "finish"],
       [op |-> "present", texture |-> texture],
       [op |-> "submit", command_buffers |-> 1] >>

\* lines 170-198: what one draw call does with the texture it acquired
DrawOps(texture) ==
    << [op |-> "get_current_texture", texture |-> texture],
       [op |-> "create_view", texture |-> texture],
       [op |-> "create_command_encoder"],
       [op |-> "begin_render_pass", view |-> texture, load |-> "Clear",
        clear |-> Transparent, store |-> TRUE],
       [op |-> "set_pipeline", pipeline |-> render_pipeline],
       [op |-> "draw", vertices |-> <<0, 3>>, instances |-> <<0, 1>>],
       [op |-> "end_render_pass"],
       [op |-> "finish"],
       [op |-> "submit", command_buffers |-> 1],
       [op |-> "present", texture |-> texture] >>

OpCount(ops, name) == Cardinality({i \in DOMAIN ops : ops[i].op = name})

----------------------------------------------------------------------------
(* run: the closure of lines 52-73 and the loop that calls it *)

\* a slip: the catch-all arm ends the loop
HandlerControlFlowExitOnOther(event) ==
    IF event.type \in {"CloseRequested", "Other"} THEN "Exit" ELSE "Wait"

\* line 53, then line 70 for a close request
HandlerControlFlow(event) ==
    IF event.type = "CloseRequested" THEN "Exit" ELSE "Wait"

\* the loop keeps Exit once it is set, whatever the closure writes later
StickyExit(current, written) == IF current = "Exit" THEN "Exit" ELSE written

\* a slip: the height is left as it was
ReconfigureWidthOnly(config, size) == [config EXCEPT !.width = size.width]

\* a slip: the configuration is built anew, with the default present mode
ReconfigureRebuilt(config, size) ==
    [config EXCEPT !.width = size.width, !.height = size.height,
                   !.present_mode = "Fifo"]

\* lines 60-61
Reconfigure(config, size) ==
    [config EXCEPT !.width = size.width, !.height = size.height]

\* the loop calls the closure with the oldest pending event
Dispatch(event) ==
    /\ pc = "event_loop"
    /\ pending # <<>>
    /\ Head(pending) = event
    /\ pending' = Tail(pending)
    /\ last_event' = event
    /\ control_flow' = StickyExit(control_flow, HandlerControlFlow(event))

\* a slip: the new size is stored and the surface is not configured again
HandleResizedNoConfigure ==
    /\ \E size \in Sizes :
          /\ Dispatch(Resized(size))
          /\ surface_config' = Reconfigure(surface_config, size)
          /\ surface' = surface
    /\ UNCHANGED <<primary, pc, diagnostic, pos, window,
                   window_size, size_read, adapter_requests, adapter, device,
                   swapchain_format, render_pipeline, drawVars>>

\* lines 55-63
HandleResized ==
    /\ \E size \in Sizes :
          /\ Dispatch(Resized(size))
          /\ surface_config' = Reconfigure(surface_config, size)
          /\ surface' = Configure(surface, device, surface_config')
    /\ UNCHANGED <<primary, pc, diagnostic, pos, window,
                   window_size, size_read, adapter_requests, adapter, device,
                   swapchain_format, render_pipeline, drawVars>>

\* a slip: a failed acquisition skips the frame and the loop goes on
HandleRedrawRequestedSkipFrame ==
    /\ Dispatch(RedrawRequested)
    /\ draw_calls' = draw_calls + 1
    /\ \/ /\ AppliedConfig # NoConfig
          /\ LET texture == acquired + 1
                 ops == DrawOps(texture)
             IN  /\ acquired' = texture
                 /\ frame' = [texture |-> texture,
                              width |-> AppliedConfig.width,
                              height |-> AppliedConfig.height,
                              format |-> AppliedConfig.format,
                              ops |-> ops]
                 /\ presents' = presents + OpCount(ops, "present")
       \/ UNCHANGED <<frame, acquired, presents>>
    /\ UNCHANGED <<primary, pc, diagnostic, pos, window, window_size, ctxVars>>

\* lines 64-66 and draw, lines 169-199; a failed acquisition is a panic
HandleRedrawRequested ==
    /\ Dispatch(RedrawRequested)
    /\ draw_calls' = draw_calls + 1
    /\ \/ /\ AppliedConfig # NoConfig
          /\ LET texture == acquired + 1
                 ops == DrawOps(texture)
             IN  /\ acquired' = texture
                 /\ frame' = [texture |-> texture,
                              width |-> AppliedConfig.width,
                              height |-> AppliedConfig.height,
                              format |-> AppliedConfig.format,
                              ops |-> ops]
                 /\ presents' = presents + OpCount(ops, "present")
          /\ UNCHANGED <<pc, diagnostic>>
       \/ /\ pc' = "aborted"
          /\ diagnostic' = ErrAcquire
          /\ UNCHANGED <<frame, acquired, presents>>
    /\ UNCHANGED <<primary, pos, window, window_size, ctxVars>>

\* lines 67-70
HandleCloseRequested ==
    /\ Dispatch(CloseRequested)
    /\ UNCHANGED <<primary, pc, diagnostic, pos, window,
                   window_size, ctxVars, drawVars>>

\* a slip: the catch-all arm draws a frame
HandleOtherDraws ==
    /\ Dispatch(OtherEvent)
    /\ draw_calls' = draw_calls + 1
    /\ acquired' = acquired + 1
    /\ presents' = presents + 1
    /\ frame' = [texture |-> acquired + 1,
                 width |-> AppliedConfig.width,
                 height |-> AppliedConfig.height,
                 format |-> AppliedConfig.format,
                 ops |-> DrawOps(acquired + 1)]
    /\ UNCHANGED <<primary, pc, diagnostic, pos, window,
                   window_size, ctxVars>>

\* line 71
HandleOther ==
    /\ Dispatch(OtherEvent)
    /\ UNCHANGED <<primary, pc, diagnostic, pos, window,
                   window_size, ctxVars, drawVars>>

\* the loop stops: the closure gets LoopDestroyed (line 71) and the process ends
ExitLoop ==
    /\ pc = "event_loop"
    /\ control_flow = "Exit"
    /\ pc' = "exited"
    /\ last_event' = LoopDestroyed
    /\ control_flow' = StickyExit(control_flow, HandlerControlFlow(LoopDestroyed))
    /\ UNCHANGED <<primary, diagnostic, pos, windowVars, ctxVars,
                   drawVars>>

----------------------------------------------------------------------------
(* Specifications *)

\* widths of the primary monitor sampled over the whole u32 range
SampleLo ==
    (0..Spread) \cup ((WindowWidth - Spread)..(WindowWidth + Spread))
                \cup ((Half - 1 - Spread)..(Half - 1))
SampleHi == {0, 1, I32HiLimit - 1, I32HiLimit, Half - 1}
SampleWidths == {U32(h, l) : h \in SampleHi, l \in SampleLo}

\* widths of the primary monitor in the runs of the whole program
RunWidths == {U32(0, 1920)}

InitWith(widths) ==
    /\ primary \in {NoMonitor} \cup widths
    /\ pc = "create_window"
    /\ diagnostic = ""
    /\ pos = NoPos
    /\ window = NoWindow
    /\ window_size = NoSize
    /\ pending = <<>>
    /\ control_flow = "Poll"
    /\ last_event = NoEvent
    /\ size_read = NoSize
    /\ surface = NoSurface
    /\ adapter_requests = <<>>
    /\ adapter = NoAdapter
    /\ device = NoDevice
    /\ swapchain_format = NoFormat
    /\ render_pipeline = NoPipeline
    /\ surface_config = NoConfig
    /\ frame = NoFrame
    /\ draw_calls = 0
    /\ acquired = 0
    /\ presents = 0

Init == InitWith(RunWidths)

Next ==
    \/ WindowPosition
    \/ BuildWindow
    \/ NewSurface
    \/ RequestAdapter
    \/ RequestDevice
    \/ CreatePipeline
    \/ ConfigureSurface
    \/ OsResize
    \/ OsRedraw
    \/ OsClose
    \/ OsOther
    \/ HandleResized
    \/ HandleRedrawRequested
    \/ HandleCloseRequested
    \/ HandleOther
    \/ ExitLoop

Spec == Init /\ [][Next]_vars

\* create_window alone, over the sampled widths
InitWindow == InitWith(SampleWidths)

NextWindow ==
    \/ WindowPosition
    \/ BuildWindow

SpecWindow == InitWindow /\ [][NextWindow]_vars

----------------------------------------------------------------------------
(* Claims *)

PositiveSize(size) == size.width > 0 /\ size.height > 0

LessThanWindowWidth(width) == U32Less(width, U32(0, WindowWidth))

\* the closure handles an event in this step
Handled == pc = "event_loop" /\ pending # <<>> /\ pending' = Tail(pending)

\* C1: once a close request has set the control flow to Exit, no event is
\* processed any more: no resize event reconfigures the surface and no
\* redraw request calls draw.
C1_NoEventAfterClose ==
    [][control_flow = "Exit"
         => /\ surface_config' = surface_config
            /\ surface' = surface
            /\ draw_calls' = draw_calls
            /\ presents' = presents]_vars

\* C2: with a primary display narrower than the window, create_window fails
\* with a range or overflow error: no position is computed, no window built.
C2_NarrowDisplayFails ==
    (primary # NoMonitor /\ LessThanWindowWidth(primary) /\ pc # "create_window")
        => /\ pc = "aborted"
           /\ diagnostic \in {ErrSubOverflow, ErrTryFromInt}
           /\ pos = NoPos
           /\ window = NoWindow

\* C3: whenever draw is called, the stored surface configuration has the
\* width and height of the window's current physical size.
C3_DrawAtWindowSize ==
    [][draw_calls' # draw_calls
         => /\ surface_config.width = window_size.width
            /\ surface_config.height = window_size.height]_vars

\* C4: a redraw request handled right after a resize event to (W, H) finds
\* the resize complete (stored and applied configuration at W x H) and the
\* frame it acquires has width W and height H.
C4_ResizeThenRedraw ==
    [][(last_event.type = "Resized" /\ draw_calls' # draw_calls)
         => /\ surface_config.width = last_event.size.width
            /\ surface_config.height = last_event.size.height
            /\ AppliedConfig = surface_config
            /\ (acquired' # acquired
                  => /\ frame'.width = last_event.size.width
                     /\ frame'.height = last_event.size.height
                     /\ frame'.texture = acquired')]_vars

C4_Witness ==
    /\ last_event = RedrawRequested
    /\ frame # NoFrame
    /\ frame.texture = acquired
    /\ frame.width = 1
    /\ frame.height = 2
    /\ AppliedConfig.width = 1
    /\ AppliedConfig.height = 2

\* C5: after a resize event with positive (W, H) is handled, the stored
\* configuration has exactly width W and height H and is the one applied to
\* the surface; handling the same resize event again changes neither.
C5_ReconfigureExactIdempotent ==
    /\ [](  (last_event.type = "Resized" /\ PositiveSize(last_event.size)
                /\ pc = "event_loop")
              => /\ surface_config.width = last_event.size.width
                 /\ surface_config.height = last_event.size.height
                 /\ AppliedConfig = surface_config)
    /\ [][(Handled /\ last_event.type = "Resized" /\ PositiveSize(last_event.size)
             /\ last_event' = last_event)
            => /\ surface_config' = surface_config
               /\ surface' = surface]_vars

C5_Witness ==
    /\ last_event = Resized(PhysicalSize(1, 2))
    /\ pc = "event_loop"
    /\ surface_config.width = 1
    /\ surface_config.height = 2
    /\ AppliedConfig = surface_config
    /\ pending # <<>>
    /\ Head(pending) = Resized(PhysicalSize(1, 2))

\* C6: once the context is built, the pipeline's colour target format and
\* the format of the stored and of the applied surface configuration are the
\* preferred format negotiated at initialization, and no step changes them.
C6_FormatsAgree ==
    /\ [](surface_config # NoConfig
            => /\ swapchain_format \in Formats
               /\ render_pipeline.targets = <<swapchain_format>>
               /\ surface_config.format = swapchain_format
               /\ AppliedConfig # NoConfig
               /\ AppliedConfig.format = swapchain_format)
    /\ [][surface_config # NoConfig
            => /\ swapchain_format' = swapchain_format
               /\ render_pipeline' = render_pipeline
               /\ surface_config'.format = surface_config.format]_vars

C6_Witness ==
    /\ last_event.type = "Resized"
    /\ frame # NoFrame
    /\ frame.width # surface_config.width
    /\ swapchain_format = "Rgba8UnormSrgb"
    /\ render_pipeline.targets = <<surface_config.format>>

\* the one operation of the frame with this name, and where it is
OpIndex(ops, name) == CHOOSE i \in DOMAIN ops : ops[i].op = name

FullCycle(f) ==
    /\ OpCount(f.ops, "get_current_texture") = 1
    /\ OpCount(f.ops, "begin_render_pass") = 1
    /\ OpCount(f.ops, "draw") = 1
    /\ OpCount(f.ops, "present") = 1
    /\ LET pass == f.ops[OpIndex(f.ops, "begin_render_pass")]
           drw == f.ops[OpIndex(f.ops, "draw")]
           prs == f.ops[OpIndex(f.ops, "present")]
       IN  /\ pass.load = "Clear"
           /\ pass.clear = Transparent
           /\ pass.view = f.texture
           /\ drw.vertices = <<0, 3>>
           /\ drw.instances = <<0, 1>>
           /\ prs.texture = f.texture
           /\ OpIndex(f.ops, "begin_render_pass") < OpIndex(f.ops, "draw")
           /\ OpIndex(f.ops, "draw") < OpIndex(f.ops, "present")

\* the draw calls that returned
DrawsReturned == IF diagnostic = ErrAcquire THEN draw_calls - 1 ELSE draw_calls

\* C7: N draw calls that return make exactly N presents; each call clears
\* once to transparent, draws 3 vertices and 1 instance once and presents
\* once, in that order, the texture it acquired itself.
C7_EveryCallFullCycle ==
    /\ presents = DrawsReturned
    /\ acquired = DrawsReturned
    /\ (frame = NoFrame <=> DrawsReturned = 0)
    /\ frame # NoFrame => (FullCycle(frame) /\ frame.texture = acquired)

C7_Witness ==
    /\ draw_calls = MaxFrames
    /\ presents = MaxFrames
    /\ frame # NoFrame
    /\ frame.texture = MaxFrames
    /\ last_event = RedrawRequested

ContextComplete ==
    /\ adapter # NoAdapter
    /\ device # NoDevice
    /\ render_pipeline # NoPipeline
    /\ surface_config # NoConfig
    /\ AppliedConfig # NoConfig
    /\ AppliedConfig = surface_config

\* C8: the closure handles its first event only when adapter, device,
\* pipeline and the first surface configuration are all there; draw is
\* never called on an unconfigured surface.
C8_TwoPhaseStartup ==
    /\ (last_event # NoEvent \/ draw_calls > 0 \/ control_flow # "Poll")
          => ContextComplete
    /\ pc \in {"create_window", "build_window", "new_context", "request_adapter",
               "request_device", "create_pipeline", "configure"}
          => (last_event = NoEvent /\ draw_calls = 0)

C8_Witness ==
    /\ pc = "event_loop"
    /\ last_event = Resized(InitialSize)
    /\ size_read # window_size
    /\ ContextComplete

\* C9: a failed adapter or device acquisition ends the program with its
\* diagnostic: one adapter request, never for a fallback adapter, no surface
\* configuration, no event handled.
C9_GpuAcquisitionFatal ==
    /\ \A i \in DOMAIN adapter_requests :
          ~adapter_requests[i].force_fallback_adapter
    /\ Len(adapter_requests) <= 1
    /\ (pc = "aborted" /\ device = NoDevice /\ Len(adapter_requests) = 1)
          => diagnostic \in {ErrAdapter, ErrDevice}
    /\ diagnostic \in {ErrAdapter, ErrDevice}
          => /\ pc = "aborted"
             /\ surface_config = NoConfig
             /\ AppliedConfig = NoConfig
             /\ last_event = NoEvent
             /\ control_flow = "Poll"
             /\ draw_calls = 0

C9_Witness ==
    /\ diagnostic = ErrDevice
    /\ pc = "aborted"
    /\ adapter # NoAdapter
    /\ Len(pending) = MaxPending

\* floor(width / 2) of a u32, which fits a signed 32-bit integer
U32HalfValue(width) == width.hi * (Half \div 2) + width.lo \div 2

\* C10: for a primary display at least as wide as the window, the position
\* is x = floor((width - 1024) / 2), y = 8, and the conversion never fails.
C10_CenteredPosition ==
    (primary # NoMonitor /\ ~LessThanWindowWidth(primary) /\ pc # "create_window")
        => /\ pos # NoPos
           /\ pos.x = U32HalfValue(primary) - WindowWidth \div 2
           /\ pos.y = WindowY
           /\ diagnostic \notin {ErrSubOverflow, ErrTryFromInt}

C10_Witness ==
    /\ primary = U32(Half - 1, Half - 1)
    /\ pc = "new_context"
    /\ window # NoWindow
    /\ window.position = [x |-> 2147483135, y |-> 8]

\* the closure is handed this event in this step
Handles(type) == Handled /\ Head(pending).type = type

\* the driver is Running: the loop is on and no exit has been asked for
Running == pc = "event_loop" /\ control_flow # "Exit"

\* this step leaves the loop as it was: Running stays Running
RunStateKept == pc' = pc /\ (control_flow' = "Exit" <=> control_flow = "Exit")

\* C11: a draw call whose texture acquisition fails ends the program with
\* its diagnostic: in that call nothing is submitted or presented, the
\* surface is not reconfigured, no second acquisition is made, and no event
\* is handled afterwards.
C11_AcquisitionFailureFatal ==
    /\ [][(draw_calls' # draw_calls /\ acquired' = acquired)
            => /\ pc' = "aborted"
               /\ diagnostic' = ErrAcquire
               /\ draw_calls' = draw_calls + 1
               /\ presents' = presents
               /\ frame' = frame
               /\ surface' = surface
               /\ surface_config' = surface_config]_vars
    /\ [](diagnostic = ErrAcquire => pc = "aborted")
    /\ [][pc = "aborted" => UNCHANGED vars]_vars

C11_Witness ==
    /\ diagnostic = ErrAcquire
    /\ pc = "aborted"
    /\ draw_calls = 2
    /\ presents = 1
    /\ acquired = 1
    /\ pending # <<>>

OpNames(ops) == [i \in DOMAIN ops |-> ops[i].op]

\* C12: a draw call that returns does, in this order: acquire the texture,
\* create the view, open the encoder, begin the one render pass, bind the
\* pipeline, draw, end the pass, finish, submit, present; it presents the
\* texture it acquired, and no acquired texture is left outstanding.
C12_FrameStepOrder ==
    /\ acquired = presents
    /\ frame # NoFrame
          => /\ OpNames(frame.ops) =
                   <<"get_current_texture", "create_view", "create_command_encoder",
                     "begin_render_pass", "set_pipeline", "draw", "end_render_pass",
                     "finish", "submit", "present">>
             /\ frame.ops[1].texture = frame.texture
             /\ frame.ops[2].texture = frame.texture
             /\ frame.ops[4].view = frame.texture
             /\ frame.ops[5].pipeline = render_pipeline
             /\ frame.ops[10].texture = frame.ops[1].texture

C12_Witness ==
    /\ frame # NoFrame
    /\ Len(frame.ops) = 10
    /\ frame.ops[9].op = "submit"
    /\ frame.ops[10].op = "present"
    /\ frame.texture = 2
    /\ acquired = presents

\* C13: every configuration applied to the surface has width > 0 and
\* height > 0.
C13_AppliedSizePositive ==
    AppliedConfig # NoConfig
        => (AppliedConfig.width > 0 /\ AppliedConfig.height > 0)

\* C14: handling a resize event changes the width and height of the stored
\* configuration and nothing else of the context: format, present mode and
\* usage, the surface's window and device, the device and queue, and the
\* pipeline stay, the stored configuration is applied to the same surface,
\* and a Running driver remains Running.
C14_ResizeFrame ==
    [][Handles("Resized")
         => /\ surface_config' = [surface_config EXCEPT
                                    !.width = Head(pending).size.width,
                                    !.height = Head(pending).size.height]
            /\ surface_config'.format = surface_config.format
            /\ surface_config'.present_mode = "Mailbox"
            /\ surface_config'.usage = "RENDER_ATTACHMENT"
            /\ surface'.window = surface.window
            /\ surface'.device = device
            /\ surface'.config = surface_config'
            /\ UNCHANGED <<device, adapter, render_pipeline, swapchain_format,
                           adapter_requests, size_read, drawVars, diagnostic>>
            /\ RunStateKept
            /\ (Running => Running')]_vars

C14_Witness ==
    /\ last_event = Resized(PhysicalSize(1, 2))
    /\ Running
    /\ surface_config = SurfaceConfiguration(swapchain_format, PhysicalSize(1, 2))
    /\ surface.config = surface_config
    /\ frame # NoFrame
    /\ frame.width = WindowWidth

\* C15: an event that is no resize, redraw request or close request is
\* ignored: the context and the surface are unchanged, nothing is
\* configured, acquired, submitted or presented, and a Running driver
\* remains Running.
C15_OtherEventsIgnored ==
    [][(Handled /\ Head(pending).type
                     \notin {"Resized", "RedrawRequested", "CloseRequested"})
         => /\ UNCHANGED <<ctxVars, drawVars, diagnostic, window, window_size>>
            /\ RunStateKept
            /\ (Running => Running')]_vars

C15_Witness ==
    /\ last_event = OtherEvent
    /\ Running
    /\ control_flow = "Wait"
    /\ surface_config # NoConfig
    /\ draw_calls = 0

C17_NoPrimaryMonitorFatal ==
    (primary = NoMonitor /\ pc # "create_window")
        => /\ pc = "aborted"
           /\ diagnostic = ErrNoPrimary
           /\ pos = NoPos
           /\ window = NoWindow
           /\ window_size = NoSize
           /\ surface = NoSurface
           /\ adapter_requests = <<>>
           /\ adapter = NoAdapter
           /\ device = NoDevice
           /\ surface_config = NoConfig
           /\ last_event = NoEvent
           /\ control_flow = "Poll"
           /\ pending = <<>>
           /\ draw_calls = 0

C17_Witness ==
    /\ primary = NoMonitor
    /\ pc = "aborted"
    /\ diagnostic = ErrNoPrimary
    /\ window = NoWindow

====
